---------------------------- MODULE Spec2Model ----------------------------
(***************************************************************************)
(* Model of djangopypi's package ingestion (management command ppadd):     *)
(* Command._save_package and its helpers, acting on the registry store     *)
(* (Package, Release, Distribution, Classifier rows and the media files).  *)
(*                                                                         *)
(* Spec      : publishes run one after another, each one atomically.       *)
(* SpecConc  : two publishes run concurrently, one database statement or   *)
(*             file operation at a time.                                  *)
(***************************************************************************)
EXTENDS Integers, Sequences, FiniteSets, TLC

(***************************************************************************)
(* Bounds of the model.                                                    *)
(***************************************************************************)
\* number of publishes of one sequential run
MaxPublishes == 3
\* number of labels of one run of the command
MaxLabels == 3
\* number of requests of one sequential run of the dispatcher
MaxRequests == 3
\* number of requests each concurrent thread serves
MaxThreadRequests == 2
\* md5.block_size, scaled down so that the modelled files span several blocks
BlockSize == 2

None == "None"

(***************************************************************************)
(* Text that the code inspects (user names, e-mail addresses, the --owner  *)
(* option) is a sequence of tokens; the empty text is <<>>.  An option     *)
(* that was not given (None) and the empty text are both false in          *)
(* `if ownerid:`, so <<>> stands for both.                                 *)
(***************************************************************************)
Contains(text, tok) == \E i \in 1..Len(text) : text[i] = tok

(***************************************************************************)
(* django.contrib.auth users (read only for the command).                  *)
(***************************************************************************)
Users ==
    { [username |-> <<"alice">>, email |-> <<"alice", "@", "example.com">>],
      [username |-> <<"bob">>,   email |-> <<"bob", "@", "example.com">>] }

\* values of the --owner option
OwnerIds ==
    { <<>>, <<"alice">>, <<"bob", "@", "example.com">>, <<"ghost">>,
      <<"ghost", "@", "example.com">> }

(***************************************************************************)
(* conf.METADATA_FIELDS                                                    *)
(***************************************************************************)
METADATA_FIELDS ==
    [ v \in {"1.0", "1.1", "1.2"} |->
        CASE v = "1.0" ->
               { "platforms", "summary", "description", "keywords", "home_page",
                 "author", "author_email", "license" }
          [] v = "1.1" ->
               { "platforms", "supported_platforms", "summary", "description",
                 "keywords", "home_page", "download_url", "author", "author_email",
                 "license", "classifiers", "requires", "provides", "obsoletes" }
          [] v = "1.2" ->
               { "platforms", "supported_platforms", "summary", "description",
                 "keywords", "home_page", "download_url", "author", "author_email",
                 "maintainer", "maintainer_email", "license", "classifiers",
                 "requires_dist", "provides_dist", "obsoletes_dist",
                 "requires_python", "requires_external", "project_url" } ]

\* settings.DJANGOPYPI_RELEASE_UPLOAD_TO (conf.RELEASE_UPLOAD_TO)
RELEASE_UPLOAD_TO == "dists"

(***************************************************************************)
(* Artifacts: a downloaded file (its name, its bytes) and the metadata the *)
(* pkginfo library reads from it.  readable = FALSE is a file in which     *)
(* pkginfo finds no metadata.  A filename is the sequence of its           *)
(* dot-separated segments.                                                 *)
(***************************************************************************)
Meta(name, version, mv, email, license, classifiers, rp) ==
    [ name |-> name, version |-> version, metadata_version |-> mv,
      author |-> "An Author", author_email |-> email, license |-> license,
      home_page |-> "http://example.com", download_url |-> None,
      summary |-> "summary", description |-> "description",
      classifiers |-> classifiers, requires_python |-> rp ]

Artifact(filename, bytes, readable, meta) ==
    [ filename |-> filename, bytes |-> bytes, readable |-> readable, meta |-> meta ]

Artifacts ==
    { Artifact(<<"foo-1", "0", "tar", "gz">>, <<1, 0, 1>>, TRUE,
               Meta("foo", "1.0", "1.0", <<"alice", "@", "example.com">>, "", <<"c1">>, "2.5")),
      Artifact(<<"foo-1", "0", "tar", "gz">>, <<0, 1, 1>>, TRUE,
               Meta("foo", "1.0", "1.2", <<"bob", "@", "example.com">>, "MIT", <<"c1", "c2">>, "2.6")),
      Artifact(<<"foo-2", "0", "egg">>, <<1, 1>>, TRUE,
               Meta("foo", "2.0", "1.1", <<"nobody", "@", "example.com">>, "MIT", <<"c2">>, None)),
      Artifact(<<"foo-1", "0", "tar", "gz">>, <<0>>, TRUE,
               Meta("bar", "1.0", "1.1", <<"alice", "@", "example.com">>, "BSD", <<>>, None)),
      Artifact(<<"bar-2", "0", "zip">>, <<1, 0, 0, 1>>, TRUE,
               Meta("bar", "2.0", "9.9", <<"bob", "@", "example.com">>, "", <<"c1">>, None)),
      Artifact(<<"junk", "txt">>, <<0, 0>>, FALSE,
               Meta(None, None, None, <<>>, "", <<>>, None)) }

(***************************************************************************)
(* hashlib.md5, as a running state updated byte by byte.  The digest of a  *)
(* file is Md5(bytes); _get_md5 computes it block by block.                *)
(***************************************************************************)
RECURSIVE Md5Update(_, _)
Md5Update(h, block) ==
    IF block = <<>> THEN h
    ELSE Md5Update((h * 3 + Head(block) + 1) % 17, Tail(block))

Md5(bytes) == Md5Update(0, bytes)

\* content.read(n) of the file from offset pos: at most n bytes, <<>> at the end
Read(bytes, pos, n) ==
    SubSeq(bytes, pos + 1, IF pos + n <= Len(bytes) THEN pos + n ELSE Len(bytes))

RECURSIVE Md5Loop(_, _, _)
Md5Loop(h, bytes, pos) ==
    LET block == Read(bytes, pos, BlockSize)
    IN  IF block = <<>> THEN h
        ELSE Md5Loop(Md5Update(h, block), bytes, pos + Len(block))

\* a loop that hashes only the first block
FirstBlockMd5(art) == Md5Update(0, Read(art.bytes, 0, BlockSize))

\* Command._get_md5
GetMd5(art) == Md5Loop(0, art.bytes, 0)

(***************************************************************************)
(* str.endswith on filenames, and Command._get_filetype.                   *)
(***************************************************************************)
EndsWith(filename, suffix) ==
    /\ Len(filename) > Len(suffix)
    /\ SubSeq(filename, Len(filename) - Len(suffix) + 1, Len(filename)) = suffix

GetFiletype(filename) ==
    IF EndsWith(filename, <<"zip">>) \/ EndsWith(filename, <<"tar", "gz">>)
    THEN "sdist"
    ELSE IF EndsWith(filename, <<"egg">>) THEN "bdist" ELSE "sdist"

\* Command._get_meta: pkginfo's metadata of the file, or None
HasMeta(art) == art.readable

\* Command._get_pkg_info (called for a metadata_version that METADATA_FIELDS holds)
GetPkgInfo(meta) ==
    LET fields == METADATA_FIELDS[meta.metadata_version]
    IN  [ key \in { k \in DOMAIN meta : k \in fields } |-> <<meta[key]>> ]

(***************************************************************************)
(* The registry store, as one record.                                      *)
(*   packages      : Package rows by name (the primary key)                *)
(*   classifiers   : names of the Classifier rows                          *)
(*   links         : Package-Classifier links <<package, classifier>>      *)
(*   releases      : Release rows in insertion order (row id = index)      *)
(*   distributions : Distribution rows in insertion order                  *)
(*   media         : the files under MEDIA_ROOT, by relative path          *)
(***************************************************************************)
EmptyStore ==
    [ packages |-> <<>>, classifiers |-> {}, links |-> {},
      releases |-> <<>>, distributions |-> <<>>, media |-> <<>> ]

Put(f, k, v) == [ x \in DOMAIN f \cup {k} |-> IF x = k THEN v ELSE f[x] ]

\* Package.get_release(version): the id of the package's release with this
\* version, 0 for None
GetRelease(s, name, version) ==
    LET ids == { i \in 1..Len(s.releases) :
                    /\ s.releases[i].package = name
                    /\ s.releases[i].version = version }
    IN  IF ids = {} THEN 0 ELSE CHOOSE i \in ids : \A j \in ids : i <= j

\* User.objects.get(email=...) / User.objects.get(username=...)
UsersByEmail(email) == { u \in Users : u.email = email }
UsersByName(username) == { u \in Users : u.username = username }

(***************************************************************************)
(* Command._save_package, one database statement or file operation per     *)
(* step.  A step maps the store s and the locals l of the call to the      *)
(* store and the locals after it.  l.pc names the next step; l.result is   *)
(* what the call printed ("added", "already added", "no owner") or the     *)
(* exception that ended it.                                                *)
(***************************************************************************)
NoUser == <<>>

\* Package(name=meta.name): a new, unsaved Package object
NewPackage ==
    [ owner |-> NoUser, license |-> "", metadata_version |-> "", author |-> "",
      home_page |-> "", download_url |-> "", summary |-> "", description |-> "",
      author_email |-> <<>> ]

NewLocal(art, ownerid) ==
    [ pc |-> "get_package", art |-> art, ownerid |-> ownerid,
      isnewpackage |-> FALSE, package |-> NewPackage, exists |-> FALSE,
      owner |-> NoUser, release |-> 0, result |-> None ]

Return(s, l, result) ==
    [ s |-> s, l |-> [l EXCEPT !.pc = "done", !.result = result] ]

Raise(s, l, exception) == Return(s, l, exception)

Exceptions ==
    { "AttributeError", "MultipleObjectsReturned", "IntegrityError", "KeyError",
      "IOError" }

\* lines 66-74: read the metadata, look the package up by name
StepGetPackage(s, l) ==
    IF ~HasMeta(l.art) THEN Raise(s, l, "AttributeError")
    ELSE IF l.art.meta.name \in DOMAIN s.packages
    THEN [ s |-> s,
           l |-> [l EXCEPT !.pc = "get_release",
                           !.package = s.packages[l.art.meta.name],
                           !.isnewpackage = FALSE] ]
    ELSE [ s |-> s,
           l |-> [l EXCEPT !.pc = "get_release",
                           !.package = NewPackage,
                           !.isnewpackage = TRUE] ]

\* an owner lookup that falls back to the author's e-mail address
OwnerMatchesFallback(ownerid, meta) ==
    LET explicit == IF Contains(ownerid, "@") THEN UsersByEmail(ownerid)
                                              ELSE UsersByName(ownerid)
    IN  IF ownerid # <<>> /\ explicit # {} THEN explicit
        ELSE UsersByEmail(meta.author_email)

\* lines 85-99: the users that the owner lookup matches
OwnerMatches(ownerid, meta) ==
    IF ownerid # <<>>
    THEN IF Contains(ownerid, "@") THEN UsersByEmail(ownerid)
                                   ELSE UsersByName(ownerid)
    ELSE UsersByEmail(meta.author_email)

\* lines 107-117: the attributes the call sets on the Package object
SetPackageFields(package, owner, meta) ==
    [ package EXCEPT
        !.owner = owner,
        !.license = IF meta.license \in {None, ""} THEN "Unknown" ELSE meta.license,
        !.metadata_version = meta.metadata_version,
        !.author = meta.author,
        !.home_page = meta.home_page,
        !.download_url = meta.download_url,
        !.summary = meta.summary,
        !.description = meta.description,
        !.author_email = meta.author_email ]

\* an already-added check that tests isnewpackage the wrong way round
AlreadyAddedOnlyNew(s, l) ==
    LET release == GetRelease(s, l.art.meta.name, l.art.meta.version)
    IN  /\ l.isnewpackage
        /\ release # 0
        /\ s.releases[release].version = l.art.meta.version

\* lines 76-79: the release of this version exists already
AlreadyAdded(s, l) ==
    LET release == GetRelease(s, l.art.meta.name, l.art.meta.version)
    IN  /\ ~l.isnewpackage
        /\ release # 0
        /\ s.releases[release].version = l.art.meta.version

\* the step without the `if not owner` return: the package is saved with
\* whatever the lookup gave
StepGetReleaseNoOwnerCheck(s, l) ==
    LET meta == l.art.meta
        matches == OwnerMatches(l.ownerid, meta)
    IN  IF AlreadyAdded(s, l) THEN Return(s, l, "already added")
        ELSE IF Cardinality(matches) > 1
        THEN Raise(s, l, "MultipleObjectsReturned")
        ELSE LET owner == IF matches = {} THEN NoUser
                          ELSE (CHOOSE u \in matches : TRUE).username
             IN  [ s |-> s,
                   l |-> [l EXCEPT !.pc = "package_save",
                                   !.owner = owner,
                                   !.package = SetPackageFields(l.package, owner, meta)] ]

\* lines 76-117: the already-added check, the owner, the Package attributes
StepGetRelease(s, l) ==
    LET meta == l.art.meta
        matches == OwnerMatches(l.ownerid, meta)
    IN  IF AlreadyAdded(s, l) THEN Return(s, l, "already added")
        ELSE IF Cardinality(matches) > 1
        THEN Raise(s, l, "MultipleObjectsReturned")
        ELSE IF matches = {} THEN Return(s, l, "no owner")
        ELSE LET owner == (CHOOSE u \in matches : TRUE).username
             IN  [ s |-> s,
                   l |-> [l EXCEPT !.pc = "package_save",
                                   !.owner = owner,
                                   !.package = SetPackageFields(l.package, owner, meta)] ]

\* the Package table holds no row of this name, its primary key
PackageKeyFree(s, name) == name \notin DOMAIN s.packages

\* line 119, package.save(), first statement: is there a row with this
\* primary key?
StepPackageProbe(s, l) ==
    [ s |-> s,
      l |-> [l EXCEPT !.pc = "package_write",
                      !.exists = l.art.meta.name \in DOMAIN s.packages] ]

\* line 119, package.save(), second statement: UPDATE the row that was
\* found, INSERT otherwise; the primary key rejects a second row
StepPackageWrite(s, l) ==
    LET name == l.art.meta.name
    IN  IF ~l.exists /\ ~PackageKeyFree(s, name)
        THEN Raise(s, l, "IntegrityError")
        ELSE [ s |-> [s EXCEPT !.packages = Put(s.packages, name, l.package)],
               l |-> [l EXCEPT !.pc = "classifiers"] ]

\* lines 121-123: get_or_create each classifier and link it to the package
StepClassifiers(s, l) ==
    LET meta == l.art.meta
        names == { meta.classifiers[i] : i \in 1..Len(meta.classifiers) }
    IN  [ s |-> [s EXCEPT !.classifiers = s.classifiers \cup names,
                          !.links = s.links \cup { <<meta.name, c>> : c \in names }],
          l |-> [l EXCEPT !.pc = "release_save"] ]

\* the Release table holds no row of this (package, version)
ReleaseUnique(s, name, version) == GetRelease(s, name, version) = 0

\* lines 124-129: build the Release and INSERT it
StepReleaseSave(s, l) ==
    LET meta == l.art.meta
    IN  IF meta.metadata_version \notin DOMAIN METADATA_FIELDS
        THEN Raise(s, l, "KeyError")
        ELSE IF ~ReleaseUnique(s, meta.name, meta.version)
        THEN Raise(s, l, "IntegrityError")
        ELSE [ s |-> [s EXCEPT !.releases =
                        Append(s.releases,
                               [ package |-> meta.name, version |-> meta.version,
                                 package_info |-> GetPkgInfo(meta) ])],
               l |-> [l EXCEPT !.pc = "copy", !.release = Len(s.releases) + 1] ]

\* lines 135-136: dis.content.name
ContentName(art) == <<RELEASE_UPLOAD_TO>> \o art.filename

\* lines 131-138: copy the file into MEDIA_ROOT; fails stands for an I/O
\* error of shutil.copy
StepCopy(s, l, fails) ==
    IF fails THEN Raise(s, l, "IOError")
    ELSE [ s |-> [s EXCEPT !.media = Put(s.media, ContentName(l.art), l.art.bytes)],
           l |-> [l EXCEPT !.pc = "distribution_save"] ]

\* lines 140-148: the digest, the file type, INSERT the Distribution
StepDistributionSave(s, l) ==
    LET meta == l.art.meta
        dis == [ release |-> l.release,
                 content |-> ContentName(l.art),
                 md5_digest |-> GetMd5(l.art),
                 filetype |-> GetFiletype(l.art.filename),
                 uploader |-> l.owner,
                 comment |-> "",
                 pyversion |-> IF meta.requires_python \in {None, ""}
                               THEN "" ELSE meta.requires_python,
                 signature |-> "" ]
    IN  Return([s EXCEPT !.distributions = Append(s.distributions, dis)], l, "added")

\* the step at l.pc
Step(s, l, fails) ==
    CASE l.pc = "get_package"       -> StepGetPackage(s, l)
      [] l.pc = "get_release"       -> StepGetRelease(s, l)
      [] l.pc = "package_save"      -> StepPackageProbe(s, l)
      [] l.pc = "package_write"     -> StepPackageWrite(s, l)
      [] l.pc = "classifiers"       -> StepClassifiers(s, l)
      [] l.pc = "release_save"      -> StepReleaseSave(s, l)
      [] l.pc = "copy"              -> StepCopy(s, l, fails)
      [] l.pc = "distribution_save" -> StepDistributionSave(s, l)

\* Command._save_package(path, ownerid), run from its first line to its return
RECURSIVE Run(_, _, _)
Run(s, l, fails) ==
    IF l.pc = "done" THEN [ s |-> s, l |-> l ]
    ELSE LET next == Step(s, l, fails) IN Run(next.s, next.l, fails)

SavePackage(s, art, ownerid, fails) == Run(s, NewLocal(art, ownerid), fails)

(***************************************************************************)
(* State.                                                                  *)
(*   packages .. media       : the registry store                          *)
(*   ALLOW_VERSION_OVERWRITE,                                              *)
(*   GLOBAL_OWNERSHIP        : conf.py settings, which a DJANGOPYPI_       *)
(*                             setting of the site overrides               *)
(*   npub, last              : the number of publishes run so far and the  *)
(*                             locals of the last one at its return        *)
(*   procs                   : the locals of the concurrent publishes      *)
(***************************************************************************)
VARIABLES packages, classifiers, links, releases, distributions, media,
          ALLOW_VERSION_OVERWRITE, GLOBAL_OWNERSHIP, npub, last, procs,
          tmpdirs, batch,
          ACTION_VIEWS, FALLBACK_VIEW, resolved, nreq, lastreq, threads

store == <<packages, classifiers, links, releases, distributions, media>>
config == <<ALLOW_VERSION_OVERWRITE, GLOBAL_OWNERSHIP>>
batchvars == <<tmpdirs, batch>>
cache == <<ACTION_VIEWS, FALLBACK_VIEW, resolved>>
dispatchvars == <<cache, nreq, lastreq, threads>>
vars == <<store, config, npub, last, procs, batchvars, dispatchvars>>

Store ==
    [ packages |-> packages, classifiers |-> classifiers, links |-> links,
      releases |-> releases, distributions |-> distributions, media |-> media ]

SetStore(s) ==
    /\ packages' = s.packages
    /\ classifiers' = s.classifiers
    /\ links' = s.links
    /\ releases' = s.releases
    /\ distributions' = s.distributions
    /\ media' = s.media

Procs == {1, 2}

NoArtifact == Artifact(<<>>, <<>>, FALSE, Meta(None, None, None, <<>>, "", <<>>, None))

Idle == [ NewLocal(NoArtifact, <<>>) EXCEPT !.pc = "idle" ]

(***************************************************************************)
(* views.root, the dispatcher.  A view is a dotted path (a string, here    *)
(* the sequence of its segments) or the callable the path names.           *)
(***************************************************************************)
StrView(path) == [ kind |-> "str", module |-> <<>>, name |-> path ]
FuncView(module, name) == [ kind |-> "func", module |-> module, name |-> <<name>> ]
NoView == [ kind |-> "None", module |-> <<>>, name |-> <<>> ]

\* conf.ACTION_VIEWS and conf.FALLBACK_VIEW as conf.py sets them
ConfActionViews ==
    [ a \in {"file_upload", "submit", "list_classifiers"} |->
        IF a = "list_classifiers"
        THEN StrView(<<"djangopypi", "views", "distutils", "list_classifiers">>)
        ELSE StrView(<<"djangopypi", "views", "distutils", "register_or_upload">>) ]

ConfFallbackView == StrView(<<"djangopypi", "views", "releases", "index">>)

\* the names the conf module defines for the dispatcher
ConfAttributes == { "ACTION_VIEWS", "FALLBACK_VIEW" }

\* lines 25-26 and 36-37: rsplit('.', 1), __import__ and getattr
Import(view) ==
    FuncView(SubSeq(view.name, 1, Len(view.name) - 1), view.name[Len(view.name)])

(***************************************************************************)
(* Requests: the method, META['CONTENT_TYPE'] (None when the server passes *)
(* none), the ':action' value of the query string (GET) or of the body     *)
(* (POST), "" when there is none, and the fallback_view of the URL pattern.*)
(***************************************************************************)
CustomFallback == FuncView(<<"site", "views">>, "index")

Requests ==
    [ method : {"GET", "POST"},
      content_type : {"text/xml", "multipart/form-data", None},
      action : {"", "file_upload", "submit", "list_classifiers", "bogus"},
      fallback_view : {NoView, CustomFallback} ]

NoRequest ==
    [ method |-> None, content_type |-> None, action |-> "", fallback_view |-> NoView ]

\* the locals of one call of root; outcome is what the call returned ("rpc":
\* parse_xmlrpc_request's response, "action": an action view's, "fallback":
\* the fallback view's, "not allowed": HttpResponseNotAllowed) or the
\* exception that left it; invoked is the view that was called
NewCall(req) ==
    [ pc |-> "classify", req |-> req, action |-> "", key |-> None,
      view |-> NoView, outcome |-> None, invoked |-> NoView ]

NoCall == [ NewCall(NoRequest) EXCEPT !.pc = "idle" ]

Respond(c, l, outcome, view) ==
    [ c |-> c, l |-> [l EXCEPT !.pc = "done", !.outcome = outcome, !.invoked = view] ]

\* lines 13-19: RPC or not, and the action
StepClassify(c, l) ==
    IF l.req.method = "POST"
    THEN IF l.req.content_type = None THEN Respond(c, l, "KeyError", NoView)
         ELSE IF l.req.content_type = "text/xml" THEN Respond(c, l, "rpc", NoView)
         ELSE [ c |-> c, l |-> [l EXCEPT !.pc = "route", !.action = l.req.action] ]
    ELSE [ c |-> c, l |-> [l EXCEPT !.pc = "route", !.action = l.req.action] ]

\* lines 30-32: the response to an unknown action
StepNotAllowed(c, l) ==
    IF "ACTION_VIEW" \in ConfAttributes THEN Respond(c, l, "not allowed", NoView)
    ELSE Respond(c, l, "AttributeError", NoView)

\* lines 21-35: read the view of the action, or the fallback view
StepRoute(c, l) ==
    IF l.action = ""
    THEN IF l.req.fallback_view # NoView
         THEN Respond(c, l, "fallback", l.req.fallback_view)
         ELSE IF c.FALLBACK_VIEW.kind = "str"
         THEN [ c |-> c, l |-> [l EXCEPT !.pc = "resolve", !.key = "FALLBACK_VIEW",
                                         !.view = c.FALLBACK_VIEW] ]
         ELSE Respond(c, l, "fallback", c.FALLBACK_VIEW)
    ELSE IF l.action \notin DOMAIN c.ACTION_VIEWS THEN StepNotAllowed(c, l)
    ELSE IF c.ACTION_VIEWS[l.action].kind = "str"
    THEN [ c |-> c, l |-> [l EXCEPT !.pc = "resolve", !.key = l.action,
                                    !.view = c.ACTION_VIEWS[l.action]] ]
    ELSE Respond(c, l, "action", c.ACTION_VIEWS[l.action])

\* lines 25-26 and 36-37: resolve the dotted path that was read
StepResolve(c, l) ==
    [ c |-> [c EXCEPT !.resolved[l.key] = c.resolved[l.key] + 1],
      l |-> [l EXCEPT !.pc = "store", !.view = Import(l.view)] ]

\* a step that does not store what it resolved
StepStoreNothing(c, l) == [ c |-> c, l |-> [l EXCEPT !.pc = "call"] ]

\* lines 27 and 38: store the callable in conf
StepStore(c, l) ==
    [ c |-> IF l.key = "FALLBACK_VIEW" THEN [c EXCEPT !.FALLBACK_VIEW = l.view]
            ELSE [c EXCEPT !.ACTION_VIEWS[l.key] = l.view],
      l |-> [l EXCEPT !.pc = "call"] ]

\* lines 28 and 40: call the view
StepCall(c, l) ==
    Respond(c, l, IF l.key = "FALLBACK_VIEW" THEN "fallback" ELSE "action", l.view)

RootStep(c, l) ==
    CASE l.pc = "classify" -> StepClassify(c, l)
      [] l.pc = "route"    -> StepRoute(c, l)
      [] l.pc = "resolve"  -> StepResolve(c, l)
      [] l.pc = "store"    -> StepStore(c, l)
      [] l.pc = "call"     -> StepCall(c, l)

\* views.root(request, fallback_view), from its first line to its return
RECURSIVE RunRoot(_, _)
RunRoot(c, l) ==
    IF l.pc = "done" THEN [ c |-> c, l |-> l ]
    ELSE LET next == RootStep(c, l) IN RunRoot(next.c, next.l)

Root(c, req) == RunRoot(c, NewCall(req))

\* no run of the command
NoBatch ==
    [ total |-> 0, handled |-> 0, ownerid |-> <<>>, status |-> "none",
      fetch |-> None, result |-> None ]

Threads == {1, 2}

CacheKeys == DOMAIN ConfActionViews \cup {"FALLBACK_VIEW"}

InitDispatcher ==
    /\ ACTION_VIEWS = ConfActionViews
    /\ FALLBACK_VIEW = ConfFallbackView
    /\ resolved = [ k \in CacheKeys |-> 0 ]
    /\ nreq = 0
    /\ lastreq = NoCall
    /\ threads = [ th \in Threads |-> [ served |-> 0, call |-> NoCall ] ]

Cache ==
    [ ACTION_VIEWS |-> ACTION_VIEWS, FALLBACK_VIEW |-> FALLBACK_VIEW,
      resolved |-> resolved ]

SetCache(c) ==
    /\ ACTION_VIEWS' = c.ACTION_VIEWS
    /\ FALLBACK_VIEW' = c.FALLBACK_VIEW
    /\ resolved' = c.resolved

InitStore ==
    /\ packages = EmptyStore.packages
    /\ classifiers = EmptyStore.classifiers
    /\ links = EmptyStore.links
    /\ releases = EmptyStore.releases
    /\ distributions = EmptyStore.distributions
    /\ media = EmptyStore.media

Init ==
    /\ InitStore
    /\ ALLOW_VERSION_OVERWRITE \in BOOLEAN
    /\ GLOBAL_OWNERSHIP \in BOOLEAN
    /\ npub = 0
    /\ last = Idle
    /\ procs = [ p \in Procs |-> Idle ]
    /\ tmpdirs = {}
    /\ batch = NoBatch
    /\ InitDispatcher

(***************************************************************************)
(* Spec: one call of _save_package after another.                          *)
(***************************************************************************)
Publish ==
    /\ npub < MaxPublishes
    /\ \E art \in Artifacts, ownerid \in OwnerIds, fails \in BOOLEAN :
         LET r == SavePackage(Store, art, ownerid, fails)
         IN  /\ SetStore(r.s)
             /\ last' = r.l
    /\ npub' = npub + 1
    /\ UNCHANGED <<config, procs, batchvars, dispatchvars>>

Next == Publish

Spec == Init /\ [][Next]_vars

(***************************************************************************)
(* SpecConc: two calls of _save_package, each in its own process (two      *)
(* runs of the command, or two requests), interleaved statement by         *)
(* statement.  The settings are those of conf.py.                          *)
(***************************************************************************)
ConcArtifacts == { a \in Artifacts : a.readable }
ConcOwnerIds == { <<>>, <<"alice">>, <<"bob", "@", "example.com">> }

InitConc ==
    /\ InitStore
    /\ ALLOW_VERSION_OVERWRITE = FALSE
    /\ GLOBAL_OWNERSHIP = FALSE
    /\ npub = 0
    /\ last = Idle
    /\ procs = [ p \in Procs |-> Idle ]
    /\ tmpdirs = {}
    /\ batch = NoBatch
    /\ InitDispatcher

Apply(p, r) ==
    /\ SetStore(r.s)
    /\ procs' = [procs EXCEPT ![p] = r.l]
    /\ UNCHANGED <<config, npub, last, batchvars, dispatchvars>>

CStart(p) ==
    /\ procs[p].pc = "idle"
    /\ \E art \in ConcArtifacts, ownerid \in ConcOwnerIds :
         Apply(p, [ s |-> Store, l |-> NewLocal(art, ownerid) ])

CGetPackage(p) ==
    /\ procs[p].pc = "get_package"
    /\ Apply(p, StepGetPackage(Store, procs[p]))

CGetRelease(p) ==
    /\ procs[p].pc = "get_release"
    /\ Apply(p, StepGetRelease(Store, procs[p]))

CPackageProbe(p) ==
    /\ procs[p].pc = "package_save"
    /\ Apply(p, StepPackageProbe(Store, procs[p]))

CPackageWrite(p) ==
    /\ procs[p].pc = "package_write"
    /\ Apply(p, StepPackageWrite(Store, procs[p]))

CClassifiers(p) ==
    /\ procs[p].pc = "classifiers"
    /\ Apply(p, StepClassifiers(Store, procs[p]))

CReleaseSave(p) ==
    /\ procs[p].pc = "release_save"
    /\ Apply(p, StepReleaseSave(Store, procs[p]))

CCopy(p) ==
    /\ procs[p].pc = "copy"
    /\ \E fails \in BOOLEAN : Apply(p, StepCopy(Store, procs[p], fails))

CDistributionSave(p) ==
    /\ procs[p].pc = "distribution_save"
    /\ Apply(p, StepDistributionSave(Store, procs[p]))

NextConc ==
    \E p \in Procs :
        \/ CStart(p)
        \/ CGetPackage(p)
        \/ CGetRelease(p)
        \/ CPackageProbe(p)
        \/ CPackageWrite(p)
        \/ CClassifiers(p)
        \/ CReleaseSave(p)
        \/ CCopy(p)
        \/ CDistributionSave(p)

SpecConc == InitConc /\ [][NextConc]_vars

(***************************************************************************)
(* SpecBatch: one run of the command over a sequence of labels             *)
(* (LabelCommand.handle calls handle_label for each label in turn; an      *)
(* exception that leaves handle_label ends the command).  A label stands   *)
(* for what self.pypi.download does with it: it fetches a file, finds      *)
(* nothing (returns None), or raises.                                      *)
(***************************************************************************)
Labels ==
    { [ fetch |-> "found", art |-> a ] : a \in Artifacts }
    \cup { [ fetch |-> "not found", art |-> NoArtifact ],
           [ fetch |-> "DistutilsError", art |-> NoArtifact ] }

\* tempdir(), up to the yield: tempfile.mkdtemp makes a directory no other
\* call has
Mkdtemp(dirs, d) == dirs \cup {d}

\* tempdir(), after the yield: shutil.rmtree(d) runs when the body of the
\* with statement ended without an exception; an exception is thrown into
\* the generator at the yield and leaves it there
TempdirExit(dirs, d, raised) == IF raised THEN dirs ELSE dirs \ {d}

\* Command.handle_label(label, owner=ownerid); d is the directory mkdtemp
\* makes.  result is the line printed or the exception that left the call.
HandleLabel(s, dirs, d, label, ownerid, fails) ==
    LET tmp == Mkdtemp(dirs, d)
    IN  IF label.fetch = "DistutilsError"
        THEN [ s |-> s, dirs |-> TempdirExit(tmp, d, TRUE), l |-> Idle,
               result |-> "DistutilsError" ]
        ELSE IF label.fetch = "found"
        THEN LET r == SavePackage(s, label.art, ownerid, fails)
             IN  [ s |-> r.s,
                   dirs |-> TempdirExit(tmp, d, r.l.result \in Exceptions),
                   l |-> r.l, result |-> r.l.result ]
        ELSE [ s |-> s, dirs |-> TempdirExit(tmp, d, FALSE), l |-> Idle,
               result |-> "not found" ]

InitBatch ==
    /\ InitStore
    /\ ALLOW_VERSION_OVERWRITE = FALSE
    /\ GLOBAL_OWNERSHIP = FALSE
    /\ npub = 0
    /\ last = Idle
    /\ procs = [ p \in Procs |-> Idle ]
    /\ InitDispatcher
    /\ tmpdirs = {}
    /\ \E n \in 1..MaxLabels, ownerid \in OwnerIds :
          batch = [ NoBatch EXCEPT !.total = n, !.ownerid = ownerid,
                                   !.status = "running" ]

\* the loop of LabelCommand.handle: the next label, if no label has raised
BatchHandleLabel ==
    /\ batch.status = "running"
    /\ \E label \in Labels, fails \in BOOLEAN :
         LET r == HandleLabel(Store, tmpdirs, batch.handled + 1, label,
                              batch.ownerid, fails)
             raised == r.result \in Exceptions \cup {"DistutilsError"}
         IN  /\ SetStore(r.s)
             /\ tmpdirs' = r.dirs
             /\ last' = r.l
             /\ batch' = [ batch EXCEPT
                    !.handled = batch.handled + 1,
                    !.fetch = label.fetch,
                    !.result = r.result,
                    !.status = IF raised THEN "aborted"
                               ELSE IF batch.handled + 1 = batch.total
                               THEN "finished" ELSE "running" ]
    /\ UNCHANGED <<config, npub, procs, dispatchvars>>

NextBatch == BatchHandleLabel

SpecBatch == InitBatch /\ [][NextBatch]_vars

(***************************************************************************)
(* SpecDispatch: one request after another through views.root.             *)
(***************************************************************************)
Dispatch ==
    /\ nreq < MaxRequests
    /\ \E req \in Requests :
         LET r == Root(Cache, req)
         IN  /\ SetCache(r.c)
             /\ lastreq' = r.l
    /\ nreq' = nreq + 1
    /\ UNCHANGED <<store, config, npub, last, procs, batchvars, threads>>

NextDispatch == Dispatch

SpecDispatch == Init /\ [][NextDispatch]_vars

(***************************************************************************)
(* SpecDispatchConc: two threads of one process serve requests through     *)
(* views.root, interleaved statement by statement.                         *)
(***************************************************************************)
ConcRequests ==
    { req \in Requests :
         /\ req.method = "GET"
         /\ req.content_type = None
         /\ req.fallback_view # NoView => req.action = "" }

ApplyRoot(th, r) ==
    /\ SetCache(r.c)
    /\ threads' = [threads EXCEPT ![th].call = r.l]
    /\ UNCHANGED <<store, config, npub, last, procs, batchvars, nreq, lastreq>>

TReceive(th) ==
    /\ threads[th].call.pc \in {"idle", "done"}
    /\ threads[th].served < MaxThreadRequests
    /\ \E req \in ConcRequests :
         threads' = [threads EXCEPT ![th] =
                        [ served |-> threads[th].served + 1, call |-> NewCall(req) ]]
    /\ UNCHANGED <<store, config, npub, last, procs, batchvars, cache, nreq, lastreq>>

TClassify(th) ==
    /\ threads[th].call.pc = "classify"
    /\ ApplyRoot(th, StepClassify(Cache, threads[th].call))

TRoute(th) ==
    /\ threads[th].call.pc = "route"
    /\ ApplyRoot(th, StepRoute(Cache, threads[th].call))

TResolve(th) ==
    /\ threads[th].call.pc = "resolve"
    /\ ApplyRoot(th, StepResolve(Cache, threads[th].call))

TStore(th) ==
    /\ threads[th].call.pc = "store"
    /\ ApplyRoot(th, StepStore(Cache, threads[th].call))

TCall(th) ==
    /\ threads[th].call.pc = "call"
    /\ ApplyRoot(th, StepCall(Cache, threads[th].call))

NextDispatchConc ==
    \E th \in Threads :
        \/ TReceive(th)
        \/ TClassify(th)
        \/ TRoute(th)
        \/ TResolve(th)
        \/ TStore(th)
        \/ TCall(th)

SpecDispatchConc == Init /\ [][NextDispatchConc]_vars

(***************************************************************************)
(* Vocabulary of the properties.  A step of Spec is one publish: last' is  *)
(* the call's locals at its return (its artifact, its --owner value, its   *)
(* result), the unprimed store is the store before the call and the primed *)
(* store the store after it.                                               *)
(***************************************************************************)
Published == npub' = npub + 1

\* an artifact with readable metadata of a known metadata version
Valid(art) == art.readable /\ art.meta.metadata_version \in DOMAIN METADATA_FIELDS

\* the store holds a Release of the artifact's (name, version)
HasRelease(s, art) ==
    \E i \in 1..Len(s.releases) :
        /\ s.releases[i].package = art.meta.name
        /\ s.releases[i].version = art.meta.version

\* the explicit owner identifier names a user
ExplicitResolves(ownerid) ==
    \E u \in Users : IF Contains(ownerid, "@") THEN u.email = ownerid
                                               ELSE u.username = ownerid

\* the author's e-mail address is that of a user
AuthorResolves(art) == \E u \in Users : u.email = art.meta.author_email

\* an owner is resolved: by the explicit identifier when one is given, by
\* the author's e-mail address otherwise
OwnerResolves(art, ownerid) ==
    IF ownerid # <<>> THEN ExplicitResolves(ownerid) ELSE AuthorResolves(art)

\* the ids of the Distribution rows of Release row i
DistributionsOf(s, i) ==
    { d \in 1..Len(s.distributions) : s.distributions[d].release = i }

StoreUnchanged == UNCHANGED store

\* every Package has a Release and every Release a Distribution: no earlier
\* publish left a part of its rows behind
Complete(s) ==
    /\ \A n \in DOMAIN s.packages :
          \E i \in 1..Len(s.releases) : s.releases[i].package = n
    /\ \A i \in 1..Len(s.releases) : DistributionsOf(s, i) # {}

\* the publishes C1 is about: a valid artifact, its (name, version) not in
\* the registry, an owner resolved, the copy into MEDIA_ROOT succeeded
C1_Applies ==
    /\ Published
    /\ Valid(last'.art)
    /\ ~HasRelease(Store, last'.art)
    /\ OwnerResolves(last'.art, last'.ownerid)
    /\ last'.result # "IOError"

\* exactly one Release and one Distribution were added, with the MD5 of the
\* artifact's bytes
C1_ReleaseAndDistribution ==
    /\ last'.result = "added"
    /\ Len(releases') = Len(releases) + 1
    /\ SubSeq(releases', 1, Len(releases)) = releases
    /\ releases'[Len(releases')].package = last'.art.meta.name
    /\ releases'[Len(releases')].version = last'.art.meta.version
    /\ Len(distributions') = Len(distributions) + 1
    /\ SubSeq(distributions', 1, Len(distributions)) = distributions
    /\ distributions'[Len(distributions')].release = Len(releases')
    /\ distributions'[Len(distributions')].md5_digest = Md5(last'.art.bytes)

(***************************************************************************)
(* C1 (as stated): one publish of a valid artifact whose (name, version)   *)
(* is not in the registry yet, with a resolved owner and working storage,  *)
(* adds exactly one Package, one Release and one Distribution, and the     *)
(* Distribution's md5_digest is the MD5 of the artifact's bytes.  Stated   *)
(* for the publishes that start from a store no failed publish has left    *)
(* rows in.                                                                *)
(***************************************************************************)
C1_AddsOnePackageAlways ==
    [][ ( C1_Applies /\ Complete(Store) ) =>
          /\ C1_ReleaseAndDistribution
          /\ Cardinality(DOMAIN packages') = Cardinality(DOMAIN packages) + 1 ]_vars

(***************************************************************************)
(* C1 (amended): such a publish adds exactly one Release and exactly one   *)
(* Distribution whose md5_digest is the MD5 of the artifact's bytes; it    *)
(* adds exactly one Package when no Package of that name exists, and no    *)
(* Package (the existing row is kept) when one exists.                     *)
(***************************************************************************)
C1_PublishNewVersion ==
    [][ C1_Applies =>
          /\ C1_ReleaseAndDistribution
          /\ DOMAIN packages' = DOMAIN packages \cup {last'.art.meta.name}
          /\ Cardinality(DOMAIN packages') =
                IF last'.art.meta.name \in DOMAIN packages
                THEN Cardinality(DOMAIN packages)
                ELSE Cardinality(DOMAIN packages) + 1 ]_vars

\* a second version of an existing package, with a file of several blocks,
\* has been published
C1_Witness ==
    /\ last.result = "added"
    /\ ~last.isnewpackage
    /\ Len(last.art.bytes) > BlockSize
    /\ Len(releases) = 2
    /\ Cardinality(DOMAIN packages) = 1

(***************************************************************************)
(* C2: with ALLOW_VERSION_OVERWRITE off, a publish of an artifact whose    *)
(* (name, version) already has a Release leaves the whole store (packages, *)
(* owners, releases, distributions, classifiers, files) as it was and      *)
(* reports "already added", not an error.                                  *)
(***************************************************************************)
C2_RepublishIsNoOp ==
    [][ ( /\ Published
          /\ ~ALLOW_VERSION_OVERWRITE
          /\ last'.art.readable
          /\ HasRelease(Store, last'.art) )
        => ( StoreUnchanged /\ last'.result = "already added" ) ]_vars

\* the same (name, version) was published again, from a different file
C2_Witness ==
    /\ ~ALLOW_VERSION_OVERWRITE
    /\ last.result = "already added"
    /\ \E i \in 1..Len(releases) :
         /\ releases[i].package = last.art.meta.name
         /\ releases[i].version = last.art.meta.version
         /\ \E d \in DistributionsOf(Store, i) :
              distributions[d].md5_digest # Md5(last.art.bytes)

(***************************************************************************)
(* C3: with ALLOW_VERSION_OVERWRITE on, a publish of an artifact whose     *)
(* (name, version) already has a Release replaces that Release's metadata  *)
(* and its Distribution's content and checksum by the new artifact's, and  *)
(* leaves the Package's owner as it was.                                   *)
(***************************************************************************)
C3_OverwriteReplaces ==
    [][ ( /\ Published
          /\ Complete(Store)
          /\ ALLOW_VERSION_OVERWRITE
          /\ Valid(last'.art)
          /\ HasRelease(Store, last'.art)
          /\ OwnerResolves(last'.art, last'.ownerid)
          /\ last'.result # "IOError" )
        => LET art == last'.art
               i == GetRelease(Store', art.meta.name, art.meta.version)
           IN  /\ i # 0
               /\ releases'[i].package_info = GetPkgInfo(art.meta)
               /\ DistributionsOf(Store', i) # {}
               /\ \A d \in DistributionsOf(Store', i) :
                    /\ distributions'[d].md5_digest = Md5(art.bytes)
                    /\ distributions'[d].content \in DOMAIN media'
                    /\ media'[distributions'[d].content] = art.bytes
               /\ packages'[art.meta.name].owner = packages[art.meta.name].owner ]_vars

(***************************************************************************)
(* C4: a publish that fails (an exception ends it) leaves the store        *)
(* exactly as it was before the publish started.                           *)
(***************************************************************************)
C4_FailedPublishChangesNothing ==
    [][ ( Published /\ last'.result \in Exceptions ) => StoreUnchanged ]_vars

\* every Package row has an owner
C5_EveryPackageOwned == \A n \in DOMAIN packages : packages[n].owner # NoUser

(***************************************************************************)
(* C5: when no owner can be resolved (no explicit owner, the author's      *)
(* e-mail address matches no user, GLOBAL_OWNERSHIP off) the publish adds  *)
(* nothing to the store and does not report success: it reports "no        *)
(* owner", or "already added" when the (name, version) is published        *)
(* already; and in every reachable state every Package has an owner.       *)
(***************************************************************************)
C5_NoOwnerNoRows ==
    /\ []C5_EveryPackageOwned
    /\ [][ ( /\ Published
             /\ last'.art.readable
             /\ last'.ownerid = <<>>
             /\ ~AuthorResolves(last'.art)
             /\ ~GLOBAL_OWNERSHIP )
           => ( /\ StoreUnchanged
                /\ last'.result =
                     IF HasRelease(Store, last'.art) THEN "already added"
                                                     ELSE "no owner" ) ]_vars

\* a publish without a resolvable owner was refused while the store held a
\* package
C5_Witness ==
    /\ ~GLOBAL_OWNERSHIP
    /\ last.result = "no owner"
    /\ last.ownerid = <<>>
    /\ ~AuthorResolves(last.art)
    /\ DOMAIN packages # {}

(***************************************************************************)
(* C6: when an explicit owner identifier is given and names no user (by    *)
(* e-mail address if it holds an "@", by username otherwise) the publish   *)
(* changes nothing in the store and does not succeed, even when the        *)
(* author's e-mail address is that of a user.                              *)
(***************************************************************************)
C6_ExplicitOwnerNoFallback ==
    [][ ( /\ Published
          /\ last'.art.readable
          /\ last'.ownerid # <<>>
          /\ ~ExplicitResolves(last'.ownerid) )
        => ( /\ StoreUnchanged
             /\ last'.result =
                  IF HasRelease(Store, last'.art) THEN "already added"
                                                  ELSE "no owner" ) ]_vars

\* an unknown --owner was refused for an artifact whose author is a user
C6_Witness ==
    /\ last.result = "no owner"
    /\ last.ownerid # <<>>
    /\ ~ExplicitResolves(last.ownerid)
    /\ Valid(last.art)
    /\ AuthorResolves(last.art)

(***************************************************************************)
(* C7: no publish changes the owner of a Package that exists: each         *)
(* Package keeps the owner it got when it was created.  Stated for the     *)
(* successful publishes that start from a store no failed publish has left *)
(* rows in.                                                                *)
(***************************************************************************)
C7_OwnerNeverReassigned ==
    [][ ( Complete(Store) /\ last'.result = "added" ) =>
          \A n \in DOMAIN packages :
             n \in DOMAIN packages' /\ packages'[n].owner = packages[n].owner ]_vars

(***************************************************************************)
(* C8: a publish of a new version of a package that exists, with no        *)
(* explicit owner and an author e-mail address that matches no user,       *)
(* keeps the package's owner and adds the new Release and Distribution.    *)
(***************************************************************************)
C8_ExistingOwnerKept ==
    [][ ( /\ Published
          /\ Complete(Store)
          /\ Valid(last'.art)
          /\ last'.art.meta.name \in DOMAIN packages
          /\ ~HasRelease(Store, last'.art)
          /\ last'.ownerid = <<>>
          /\ ~AuthorResolves(last'.art)
          /\ last'.result # "IOError" )
        => ( /\ last'.result = "added"
             /\ packages'[last'.art.meta.name].owner =
                   packages[last'.art.meta.name].owner
             /\ Len(releases') = Len(releases) + 1
             /\ Len(distributions') = Len(distributions) + 1 ) ]_vars

(***************************************************************************)
(* Vocabulary of the concurrency properties: both calls of SpecConc have   *)
(* returned, each with a valid artifact, a resolved owner and working      *)
(* storage.                                                                *)
(***************************************************************************)
BothDone ==
    \A p \in Procs :
        /\ procs[p].pc = "done"
        /\ Valid(procs[p].art)
        /\ OwnerResolves(procs[p].art, procs[p].ownerid)
        /\ procs[p].result # "IOError"

ReleasesOf(s, art) ==
    { i \in 1..Len(s.releases) :
         /\ s.releases[i].package = art.meta.name
         /\ s.releases[i].version = art.meta.version }

(***************************************************************************)
(* C9: after two concurrent publishes of the same (name, version), the     *)
(* store holds exactly one Release of the pair, with exactly one           *)
(* Distribution; one call has published it and the other call has          *)
(* published it or has reported "already added".                           *)
(***************************************************************************)
C9_SameVersionOneRelease ==
    ( /\ BothDone
      /\ procs[1].art.meta.name = procs[2].art.meta.name
      /\ procs[1].art.meta.version = procs[2].art.meta.version )
    => ( /\ Cardinality(ReleasesOf(Store, procs[1].art)) = 1
         /\ \A i \in ReleasesOf(Store, procs[1].art) :
               Cardinality(DistributionsOf(Store, i)) = 1
         /\ \E p \in Procs : procs[p].result = "added"
         /\ \A p \in Procs : procs[p].result \in {"added", "already added"} )

(***************************************************************************)
(* C10: after two concurrent publishes of two different versions of the    *)
(* same package, both calls have completed and both Releases, each with    *)
(* its Distribution, are in the store, under the one Package row.          *)
(***************************************************************************)
C10_DifferentVersionsBothKept ==
    ( /\ BothDone
      /\ procs[1].art.meta.name = procs[2].art.meta.name
      /\ procs[1].art.meta.version # procs[2].art.meta.version )
    => ( /\ procs[1].art.meta.name \in DOMAIN packages
         /\ \A p \in Procs :
               /\ procs[p].result = "added"
               /\ Cardinality(ReleasesOf(Store, procs[p].art)) = 1
               /\ \A i \in ReleasesOf(Store, procs[p].art) :
                     DistributionsOf(Store, i) # {} )

(***************************************************************************)
(* C11: a publish of an artifact whose metadata version is not a key of    *)
(* METADATA_FIELDS is rejected and leaves the store unchanged: no Package, *)
(* classifier link, Release or Distribution is written.                    *)
(***************************************************************************)
C11_UnsupportedVersionChangesNothing ==
    [][ ( /\ Published
          /\ last'.art.readable
          /\ last'.art.meta.metadata_version \notin DOMAIN METADATA_FIELDS )
        => ( StoreUnchanged /\ last'.result # "added" ) ]_vars

(***************************************************************************)
(* C14: for every Distribution, the file at its recorded content path      *)
(* exists and its MD5 is the Distribution's md5_digest.                    *)
(***************************************************************************)
C14_StoredContentMatchesDigest ==
    \A d \in 1..Len(distributions) :
        /\ distributions[d].content \in DOMAIN media
        /\ Md5(media[distributions[d].content]) = distributions[d].md5_digest

\* conf.DIST_FILE_TYPES: the codes of the permitted file types
DIST_FILE_TYPES ==
    { "sdist", "bdist_dumb", "bdist_rpm", "bdist_wininst", "bdist_egg", "bdist_dmg" }

(***************************************************************************)
(* C15: every Distribution's filetype is one of the codes of               *)
(* DIST_FILE_TYPES; a filename ending in .egg gives the egg type and any   *)
(* other filename gives sdist.                                             *)
(***************************************************************************)
C15_FiletypePermitted ==
    \A d \in 1..Len(distributions) :
        /\ distributions[d].filetype \in DIST_FILE_TYPES
        /\ distributions[d].filetype =
              IF EndsWith(SubSeq(distributions[d].content, 2,
                                 Len(distributions[d].content)), <<"egg">>)
              THEN "bdist_egg" ELSE "sdist"

\* the artifact without its requires_python value
WithoutRequiresPython(art) == [art EXCEPT !.meta.requires_python = None]

(***************************************************************************)
(* C16: what a publish of a "1.0"-declared artifact persists does not      *)
(* depend on the artifact's requires_python value (the store after it is   *)
(* the store the same publish gives without that value), and the new       *)
(* Release's package_info holds only keys of METADATA_FIELDS["1.0"].       *)
(***************************************************************************)
C16_RequiresPythonDropped ==
    [][ ( /\ Published
          /\ last'.result = "added"
          /\ last'.art.meta.metadata_version = "1.0" )
        => ( /\ DOMAIN releases'[Len(releases')].package_info
                   \subseteq METADATA_FIELDS["1.0"]
             /\ Store' = SavePackage(Store, WithoutRequiresPython(last'.art),
                                     last'.ownerid, FALSE).s ) ]_vars

(***************************************************************************)
(* C20: a publish adds to the Package-Classifier links exactly the         *)
(* classifiers its artifact declares when it succeeds and nothing when it  *)
(* does not, so that each Package's classifier set is the union of the     *)
(* classifiers of its successfully published artifacts; no Classifier row  *)
(* and no link is ever removed.                                            *)
(***************************************************************************)
C20_ClassifiersOfPublishedArtifacts ==
    [][ Published =>
          LET meta == last'.art.meta
              declared == { <<meta.name, meta.classifiers[i]>> :
                               i \in 1..Len(meta.classifiers) }
          IN  /\ classifiers \subseteq classifiers'
              /\ links' = IF last'.result = "added" THEN links \cup declared
                                                    ELSE links ]_vars

(***************************************************************************)
(* C13: a failure on one label (nothing fetched, no readable metadata, an  *)
(* unsupported metadata version, no owner, a storage error) never aborts   *)
(* the batch: when the run of the command has ended, handle_label has been *)
(* called for every label.                                                 *)
(***************************************************************************)
C13_EveryLabelHandled ==
    ( /\ batch.status \in {"finished", "aborted"}
      /\ batch.result # "DistutilsError" )
    => batch.handled = batch.total

(***************************************************************************)
(* C19: no temporary directory outlives the handling of its label: after   *)
(* every call of handle_label, however it ended, no directory made by      *)
(* tempdir() exists.                                                       *)
(***************************************************************************)
C19_TempdirRemoved == tmpdirs = {}

(***************************************************************************)
(* Vocabulary of the dispatcher's properties.  In SpecDispatch lastreq is  *)
(* the finished call of the last request.                                  *)
(***************************************************************************)
Served == lastreq.pc = "done"

DeclaresRpc(req) == req.content_type = "text/xml"

KnownAction(req) == req.action \in DOMAIN ConfActionViews

\* the entry of the handler cache for an action name or for the fallback
Entry(k) == IF k = "FALLBACK_VIEW" THEN FALLBACK_VIEW ELSE ACTION_VIEWS[k]

Configured(k) == IF k = "FALLBACK_VIEW" THEN ConfFallbackView ELSE ConfActionViews[k]

\* C12: a request that is not an RPC call (a GET, or a POST with a content
\* type other than the RPC one) and whose ':action' is non-empty and is no
\* key of ACTION_VIEWS gets the method-not-allowed response: the call raises
\* nothing and invokes no view.
C12_UnknownActionNotAllowed ==
    ( /\ Served
      /\ ~DeclaresRpc(lastreq.req)
      /\ lastreq.req.method = "POST" => lastreq.req.content_type # None
      /\ lastreq.req.action # ""
      /\ ~KnownAction(lastreq.req) )
    => ( /\ lastreq.outcome = "not allowed"
         /\ lastreq.invoked = NoView )

\* C17: a request that declares the RPC content type is parsed as an RPC call
\* and reaches no action view, no method-not-allowed response and no fallback
\* view, whatever its ':action'; a request that does not declare it never
\* reaches the RPC parser and is routed by its ':action': a known action to
\* the view configured for it, no action to the fallback view.
C17_RoutedByContentType ==
    Served =>
        /\ DeclaresRpc(lastreq.req) => lastreq.outcome = "rpc"
        /\ ~DeclaresRpc(lastreq.req) =>
              /\ lastreq.outcome # "rpc"
              /\ KnownAction(lastreq.req) =>
                    /\ lastreq.outcome = "action"
                    /\ lastreq.invoked = Import(ConfActionViews[lastreq.req.action])
              /\ lastreq.req.action = "" =>
                    /\ lastreq.outcome = "fallback"
                    /\ lastreq.invoked =
                          IF lastreq.req.fallback_view # NoView
                          THEN lastreq.req.fallback_view
                          ELSE Import(ConfFallbackView)

\* C18 as stated: over any interleaving of requests, every action name's view
\* and the fallback view are resolved from their dotted paths at most once.
C18_ResolvedAtMostOnce == \A k \in CacheKeys : resolved[k] <= 1

\* C18, amended: every entry of the handler cache is resolved at most once by
\* each thread; an entry that holds a callable holds the one its configured
\* path names and never changes again; and every request for a known action
\* invokes the callable its configured path names.
C18_ResolvedOncePerThread ==
    /\ [](\A k \in CacheKeys :
            /\ resolved[k] <= Cardinality(Threads)
            /\ Entry(k).kind = "func" => Entry(k) = Import(Configured(k)))
    /\ [][\A k \in CacheKeys : Entry(k).kind = "func" => Entry(k)' = Entry(k)]_vars
    /\ [](\A th \in Threads :
            LET call == threads[th].call
            IN  ( call.pc = "done" /\ call.outcome = "action" )
                => call.invoked = Import(ConfActionViews[call.action]))

\* two overlapping requests have both resolved an action's view, and a later
\* request has invoked the callable it found in the cache
C18_Witness ==
    \E th \in Threads :
        LET call == threads[th].call
        IN  /\ call.pc = "done"
            /\ call.outcome = "action"
            /\ call.key = None
            /\ resolved[call.action] = 2


=============================================================================
